---- MODULE Spec2Model ----
(***************************************************************************)
(* A model of the numeric training engine of one-fell-swoop.ipynb: the     *)
(* Network parameter store, feedforward, evaluate, learn,                  *)
(* batch_stochastic_gradient_descent and batch_backprop.                   *)
(*                                                                         *)
(* Numbers.  A float is modelled as a fixed-point integer: the integer v   *)
(* stands for the real v / One.  Products and quotients round to the       *)
(* nearest representable value, as float arithmetic does; sigmoid is the   *)
(* real sigmoid rounded to the nearest representable value.                *)
(*                                                                         *)
(* Arrays.  A numpy ndarray is a record [ok, shape, data]: shape is the    *)
(* tuple of axis lengths and data maps every index tuple (1-based) to its  *)
(* entry.  A Python int is the 0-d array.  The numpy operations used by    *)
(* the code (broadcasting arithmetic, matmul, dot, transpose, sum, stack,  *)
(* argmax) follow numpy's shape rules; an operation numpy rejects with a   *)
(* ValueError yields Raise, which every later operation propagates.        *)
(***************************************************************************)
EXTENDS Integers, Sequences, FiniteSets, Bags, TLC

\* the float literal 1.0 in fixed point: one unit is 1/One
One == 64

----------------------------------------------------------------------------
\* fixed-point arithmetic

\* floor(p / q + 1/2) for q > 0: the quotient rounded to nearest
RoundDiv(p, q) == (2 * p + q) \div (2 * q)

\* float product a * b
FMul(a, b) == RoundDiv(a * b, One)

\* float quotient of the float a by the Python int n (n > 0)
FDivInt(a, n) == RoundDiv(a, n)

\* the arguments at which the rounded sigmoid steps up: entry i is the least
\* z with One / (1 + exp(-z / One)) >= i - 1/2
SigmoidSteps ==
    <<-310, -238, -204, -182, -165, -151, -139, -129, -120, -111, -104, -97,
      -90, -84, -78, -73, -67, -62, -57, -52, -48, -43, -39, -34,
      -30, -26, -22, -18, -14, -10, -6, -2, 3, 7, 11, 15,
      19, 23, 27, 31, 35, 40, 44, 49, 53, 58, 63, 68,
      74, 79, 85, 91, 98, 105, 112, 121, 130, 140, 152, 166,
      183, 205, 239, 311>>

\* def sigmoid(z): 1.0 / (1.0 + np.exp(-z)), one element:
\* One / (1 + exp(-z / One)) rounded to nearest
sigmoid1(z) == Cardinality({i \in 1..Len(SigmoidSteps) : SigmoidSteps[i] <= z})

----------------------------------------------------------------------------
\* ndarrays

\* F applied to the value of e: e is evaluated once, however often F reads it
Let1(e, F(_)) == CHOOSE r \in {F(v) : v \in {e}} : TRUE
Let2(e1, e2, F(_, _)) == CHOOSE r \in {F(v1, v2) : v1 \in {e1}, v2 \in {e2}} : TRUE
Let3(e1, e2, e3, F(_, _, _)) ==
    CHOOSE r \in {F(v1, v2, v3) : v1 \in {e1}, v2 \in {e2}, v3 \in {e3}} : TRUE

\* the list <<F(1), ..., F(n)>>, its entries computed once (@@ yields an
\* explicit function)
List(n, F(_)) == [i \in 1..n |-> F(i)] @@ <<>>

\* the outcome of an operation that raised
Raise == [ok |-> FALSE, shape |-> <<>>, data |-> <<>>]

RECURSIVE Idx(_)
\* every index tuple of an array of the given shape
Idx(shape) ==
    IF shape = <<>> THEN {<<>>}
    ELSE {<<i>> \o r : i \in 1..Head(shape), r \in Idx(Tail(shape))}

\* the array of the given shape whose entry at ix is F(ix); the entries are
\* computed once, when the array is built (@@ yields an explicit function)
Arr(shape, F(_)) ==
    [ok |-> TRUE, shape |-> shape, data |-> ([ix \in Idx(shape) |-> F(ix)] @@ <<>>)]

\* a Python int (a 0-d array)
Scalar(v) == Arr(<<>>, LAMBDA ix : v)

\* np.zeros(shape)
Zeros(shape) == Arr(shape, LAMBDA ix : 0)

Ndim(a) == Len(a.shape)

Max(a, b) == IF a >= b THEN a ELSE b

\* shape s padded on the left with 1s to d axes
PadShape(s, d) == [k \in 1..d |-> IF k <= d - Len(s) THEN 1 ELSE s[k - (d - Len(s))]]

\* numpy's broadcasting rule: axes are aligned on the right, and two axis
\* lengths are compatible when they are equal or one of them is 1
BroadcastOk(s1, s2) ==
    LET d == Max(Len(s1), Len(s2))
        p1 == PadShape(s1, d)
        p2 == PadShape(s2, d)
    IN  \A k \in 1..d : p1[k] = p2[k] \/ p1[k] = 1 \/ p2[k] = 1

BroadcastShape(s1, s2) ==
    LET d == Max(Len(s1), Len(s2))
        p1 == PadShape(s1, d)
        p2 == PadShape(s2, d)
    IN  List(d, LAMBDA k : Max(p1[k], p2[k]))

\* the index into an array of shape s that the broadcast index ix reads
Proj(ix, s) ==
    LET off == Len(ix) - Len(s)
    IN  List(Len(s), LAMBDA k : IF s[k] = 1 THEN 1 ELSE ix[k + off])

\* a (op) b element-wise with broadcasting
Elementwise(a0, b0, Op(_, _)) ==
    Let2(a0, b0, LAMBDA a, b :
      IF ~a.ok \/ ~b.ok THEN Raise
      ELSE IF ~BroadcastOk(a.shape, b.shape) THEN Raise
      ELSE Arr(BroadcastShape(a.shape, b.shape),
               LAMBDA ix : Op(a.data[Proj(ix, a.shape)], b.data[Proj(ix, b.shape)])))

Add(a, b) == Elementwise(a, b, LAMBDA u, v : u + v)
Sub(a, b) == Elementwise(a, b, LAMBDA u, v : u - v)
Mul(a, b) == Elementwise(a, b, FMul)

\* f applied to every entry
Map(a0, F(_)) ==
    Let1(a0, LAMBDA a : IF ~a.ok THEN Raise ELSE Arr(a.shape, LAMBDA ix : F(a.data[ix])))

\* float scalar c times array a
Scale(c, a) == Map(a, LAMBDA v : FMul(c, v))

RECURSIVE SumSeq(_)
\* the sum of a sequence of numbers
SumSeq(s) == IF s = <<>> THEN 0 ELSE Head(s) + SumSeq(Tail(s))

\* F(1) + ... + F(n)
SumTo(n, F(_)) == SumSeq(List(n, F))

Front(s) == SubSeq(s, 1, Len(s) - 1)
Last(s) == s[Len(s)]

\* np.matmul(a, b) for arrays of two or more axes: the last two axes are
\* matrices, the leading axes are broadcast
MatMul(a0, b0) ==
    Let2(a0, b0, LAMBDA a, b :
      IF ~a.ok \/ ~b.ok THEN Raise
      ELSE IF Ndim(a) < 2 \/ Ndim(b) < 2 THEN Raise
      ELSE
        LET da == Ndim(a)
            db == Ndim(b)
            ba == SubSeq(a.shape, 1, da - 2)
            bb == SubSeq(b.shape, 1, db - 2)
            n  == a.shape[da]
        IN  IF n # b.shape[db - 1] \/ ~BroadcastOk(ba, bb) THEN Raise
            ELSE
              Let1(BroadcastShape(ba, bb), LAMBDA bs :
                Arr(bs \o <<a.shape[da - 1], b.shape[db]>>,
                    LAMBDA ix :
                      SumTo(n, LAMBDA j :
                        FMul(a.data[Proj(SubSeq(ix, 1, Len(bs)), ba) \o <<ix[Len(bs) + 1], j>>],
                             b.data[Proj(SubSeq(ix, 1, Len(bs)), bb) \o <<j, ix[Len(bs) + 2]>>])))))

\* np.dot(a, b) for a matrix a and an array b of two or more axes: the sum
\* product over the last axis of a and the second-to-last axis of b; the
\* result's axes are a's first axis, then b's axes without its second-to-last
Dot(a0, b0) ==
    Let2(a0, b0, LAMBDA a, b :
      IF ~a.ok \/ ~b.ok THEN Raise
      ELSE IF Ndim(a) # 2 \/ Ndim(b) < 2 THEN Raise
      ELSE
        LET db == Ndim(b)
            n  == a.shape[2]
            lead == SubSeq(b.shape, 1, db - 2)
        IN  IF n # b.shape[db - 1] THEN Raise
            ELSE Arr(<<a.shape[1]>> \o lead \o <<b.shape[db]>>,
                     LAMBDA ix :
                       SumTo(n, LAMBDA j :
                         FMul(a.data[<<ix[1], j>>],
                              b.data[SubSeq(ix, 2, db - 1) \o <<j, ix[db]>>]))))

Reverse(s) == List(Len(s), LAMBDA k : s[Len(s) + 1 - k])

\* a.transpose(): all axes reversed
Transpose(a0) ==
    Let1(a0, LAMBDA a :
      IF ~a.ok THEN Raise
      ELSE Arr(Reverse(a.shape), LAMBDA ix : a.data[Reverse(ix)]))

\* a.transpose(0, 2, 1): the last two of three axes swapped
Transpose021(a0) ==
    Let1(a0, LAMBDA a :
      IF ~a.ok THEN Raise
      ELSE IF Ndim(a) # 3 THEN Raise
      ELSE Arr(<<a.shape[1], a.shape[3], a.shape[2]>>,
               LAMBDA ix : a.data[<<ix[1], ix[3], ix[2]>>]))

\* a variant that forgets the sum: the batch axis is kept
SumAxis0Missing(a0) == a0

\* a.sum(axis = 0)
SumAxis0(a0) ==
    Let1(a0, LAMBDA a :
      IF ~a.ok THEN Raise
      ELSE IF Ndim(a) < 1 THEN Raise
      ELSE Arr(Tail(a.shape), LAMBDA ix : SumTo(a.shape[1], LAMBDA i : a.data[<<i>> \o ix])))

\* np.stack(arrays): a new leading axis; all arrays must have one shape
Stack(arrays0) ==
    Let1(arrays0, LAMBDA arrays :
      IF Len(arrays) = 0 THEN Raise
      ELSE IF \E i \in 1..Len(arrays) : ~arrays[i].ok \/ arrays[i].shape # arrays[1].shape
           THEN Raise
      ELSE Arr(<<Len(arrays)>> \o arrays[1].shape,
               LAMBDA ix : arrays[ix[1]].data[Tail(ix)]))

RECURSIVE IdxLess(_, _)
\* row-major (C) order of index tuples of equal length
IdxLess(i, j) ==
    IF i = <<>> THEN FALSE
    ELSE Head(i) < Head(j) \/ (Head(i) = Head(j) /\ IdxLess(Tail(i), Tail(j)))

\* the 0-based position of index ix in the flattened array
FlatPos(ix, shape) == Cardinality({j \in Idx(shape) : IdxLess(j, ix)})

\* a variant that returns the flat index of the last occurrence of the maximum
ArgMaxLast(a0) ==
    Let1(a0, LAMBDA a :
      Let1(CHOOSE ix \in Idx(a.shape) :
             /\ \A j \in Idx(a.shape) : a.data[j] <= a.data[ix]
             /\ \A j \in Idx(a.shape) : a.data[j] = a.data[ix] => ~IdxLess(ix, j),
           LAMBDA best : FlatPos(best, a.shape)))

\* np.argmax(a): the flat index of the first occurrence of the maximum
ArgMax(a0) ==
    Let1(a0, LAMBDA a :
      Let1(CHOOSE ix \in Idx(a.shape) :
             /\ \A j \in Idx(a.shape) : a.data[j] <= a.data[ix]
             /\ \A j \in Idx(a.shape) : a.data[j] = a.data[ix] => ~IdxLess(j, ix),
           LAMBDA best : FlatPos(best, a.shape)))

sigmoid(z) == Map(z, sigmoid1)
sigmoid_prime(z) ==
    Let1(sigmoid(z), LAMBDA s : Mul(s, Elementwise(Scalar(One), s, LAMBDA u, v : u - v)))

\* a variant that subtracts the first sample's target from every sample's output
cost_derivative_first(output_activations, y) ==
    Sub(output_activations,
        Let1(y, LAMBDA t :
          IF ~t.ok \/ t.shape = <<>> THEN t
          ELSE Arr(t.shape, LAMBDA ix : t.data[<<1>> \o Tail(ix)])))

\* def cost_derivative(output_activations, y)
cost_derivative(output_activations, y) == Sub(output_activations, y)

----------------------------------------------------------------------------
\* Python lists

Min(a, b) == IF a <= b THEN a ELSE b

\* lst[lo : hi] for 0 <= lo, 0 <= hi (0-based, hi exclusive, clamped to the list)
Slice(lst, lo, hi) == SubSeq(lst, lo + 1, Min(hi, Len(lst)))

RECURSIVE Range(_, _, _)
\* list(range(start, stop, step)) for step > 0
Range(start, stop, step) ==
    IF start >= stop THEN <<>> ELSE <<start>> \o Range(start + step, stop, step)

\* lst[-i] for 1 <= i <= len(lst)
FromEnd(lst, i) == lst[Len(lst) - i + 1]

\* lst with lst[-i] = v assigned
SetFromEnd(lst, i, v) == [lst EXCEPT ![Len(lst) - i + 1] = v]

\* the orders random.shuffle can leave the list in
Shuffles(lst) ==
    LET n == Len(lst)
    IN  {List(n, LAMBDA i : lst[p[i]]) :
           p \in {q \in [1..n -> 1..n] : \A a, b \in 1..n : q[a] = q[b] => a = b}}

----------------------------------------------------------------------------
\* The neural network

\* one np.random.randn draw: the draws of a run are a function of the
\* generator's seed; entry ix of the array built for layer transition i
Randn(seed, i, ix) == One * (((seed * (i + 1) + 3 * i + 2 * Head(ix) + 4 * Last(ix)) % 5) - 2)

\* def init_network(layers)
init_network(layers, seed) ==
    LET L == Len(layers)
    IN  [num_layers |-> L,
         biases  |-> List(L - 1, LAMBDA i :
                        Arr(<<layers[i + 1], 1>>, LAMBDA ix : Randn(seed, i, ix))),
         weights |-> List(L - 1, LAMBDA i :
                        Arr(<<layers[i + 1], layers[i]>>, LAMBDA ix : Randn(seed + 1, i, ix)))]

RECURSIVE feedforward_from(_, _, _)
\* the body of feedforward's loop from layer transition i on
feedforward_from(nn, a, i) ==
    IF i > Min(Len(nn.biases), Len(nn.weights)) THEN a
    ELSE feedforward_from(nn, sigmoid(Add(Dot(nn.weights[i], a), nn.biases[i])), i + 1)

\* def feedforward(nn, a)
feedforward(nn, a) == feedforward_from(nn, a, 1)

\* def evaluate(nn, test_data): [ok, value]; it raises when feedforward does
evaluate(nn, test_data) ==
    Let1(List(Len(test_data), LAMBDA s : feedforward(nn, test_data[s].x)),
         LAMBDA test_results :
           IF \E s \in 1..Len(test_data) : ~test_results[s].ok
           THEN [ok |-> FALSE, value |-> 0]
           ELSE [ok |-> TRUE,
                 value |-> SumTo(Len(test_data), LAMBDA s :
                             IF Scalar(ArgMax(test_results[s])) = test_data[s].y
                             THEN 1 ELSE 0)])

----------------------------------------------------------------------------
\* Backpropagation

\* ax, ay = tuple(t for t in np.asarray(mini_batch).transpose()); x = np.stack(ax);
\* y = np.stack(ay).   [ok, x, y]
\* Samples hold column vectors (n, 1) or int labels.  When every x and y of
\* the batch has one common shape s, np.asarray builds a numeric array of
\* shape (B, 2) + s, its transpose has s's last axis (of length 1) first, and
\* unpacking its single row into ax, ay raises ValueError.  Otherwise
\* np.asarray builds a (B, 2) array of objects, whose transpose has the row
\* of the x's and the row of the y's.  An empty batch gives an array with no
\* rows to unpack.
batch_components(mini_batch) ==
    LET B == Len(mini_batch)
        homogeneous == \A s \in 1..B :
                          /\ mini_batch[s].x.shape = mini_batch[1].x.shape
                          /\ mini_batch[s].y.shape = mini_batch[1].x.shape
    IN  IF B = 0 \/ homogeneous THEN [ok |-> FALSE, x |-> Raise, y |-> Raise]
        ELSE Let2(Stack(List(B, LAMBDA s : mini_batch[s].x)),
                  Stack(List(B, LAMBDA s : mini_batch[s].y)),
                  LAMBDA x, y : [ok |-> x.ok /\ y.ok, x |-> x, y |-> y])

RECURSIVE forward_from(_, _, _)
\* the feedforward loop of batch_backprop from layer transition l on;
\* f holds the lists zs and activations built so far
forward_from(nn, f0, l) ==
    IF l > Min(Len(nn.biases), Len(nn.weights)) THEN f0
    ELSE Let1(f0, LAMBDA f :
           Let1(Add(MatMul(nn.weights[l], Last(f.activations)), nn.biases[l]), LAMBDA z :
             forward_from(nn,
               [zs |-> Append(f.zs, z), activations |-> Append(f.activations, sigmoid(z))],
               l + 1)))

\* a variant whose backward loop stops one layer early
backward_stop_early(nn) == nn.num_layers - 1

\* the upper end of the backward loop: for i in range(2, nn.num_layers)
backward_stop(nn) == nn.num_layers

RECURSIVE backward_from(_, _, _, _)
\* the backward loop from index i on; g holds delta, nabla_b, nabla_w and the
\* set of list positions assigned so far, f the lists zs and activations
backward_from(nn, f, g0, i) ==
    IF i >= backward_stop(nn) THEN g0
    ELSE Let1(g0, LAMBDA g :
           Let1(Mul(MatMul(Transpose(FromEnd(nn.weights, i - 1)), g.delta),
                    sigmoid_prime(FromEnd(f.zs, i))),
                LAMBDA delta :
             backward_from(nn, f,
               [delta   |-> delta,
                nabla_b |-> SetFromEnd(g.nabla_b, i, SumAxis0(delta)),
                nabla_w |-> SetFromEnd(g.nabla_w, i,
                              SumAxis0(MatMul(delta, Transpose021(FromEnd(f.activations, i + 1))))),
                written |-> g.written \cup {Len(g.nabla_b) - i + 1}],
               i + 1)))

\* def batch_backprop(nn, mini_batch): [ok, nabla_b, nabla_w, written].
\* ok is FALSE when the call raises; written is the set of positions of the
\* gradient lists that the backward pass assigned
batch_backprop(nn, mini_batch) ==
    Let1(batch_components(mini_batch), LAMBDA c :
      IF ~c.ok THEN [ok |-> FALSE, nabla_b |-> <<>>, nabla_w |-> <<>>, written |-> {}]
      ELSE
        Let1(forward_from(nn, [zs |-> <<>>, activations |-> <<c.x>>], 1), LAMBDA f :
          Let1(Mul(cost_derivative(FromEnd(f.activations, 1), c.y),
                   sigmoid_prime(FromEnd(f.zs, 1))),
               LAMBDA delta :
            Let1(backward_from(nn, f,
                   [delta   |-> delta,
                    nabla_b |-> SetFromEnd(List(Len(nn.biases), LAMBDA i : Zeros(nn.biases[i].shape)),
                                           1, SumAxis0(delta)),
                    nabla_w |-> SetFromEnd(List(Len(nn.weights), LAMBDA i : Zeros(nn.weights[i].shape)),
                                           1, SumAxis0(MatMul(delta,
                                                Transpose021(FromEnd(f.activations, 2))))),
                    written |-> {Len(nn.biases)}],
                   2),
                 LAMBDA g :
              [ok |-> /\ \A i \in 1..Len(g.nabla_b) : g.nabla_b[i].ok
                      /\ \A i \in 1..Len(g.nabla_w) : g.nabla_w[i].ok,
               nabla_b |-> g.nabla_b, nabla_w |-> g.nabla_w, written |-> g.written]))))

----------------------------------------------------------------------------
\* Bounds and input domains

\* the largest training set
MaxSamples == 3

\* the largest epoch count
MaxEpochs == 2

\* the layer sizes the networks are built from
LayerChoices == {<<2, 1>>, <<1, 2>>, <<2, 2>>, <<1, 2, 2>>, <<1, 2, 1, 2>>}

\* the seeds of the random generator behind np.random.randn
Seeds == {1, 2}

\* the learning rates: 3.0, as in the main program
LearningRates == {3 * One}

\* a column vector (n, 1) of 0.0 and 1.0 entries, alternating from phase q
Column(n, q) == Arr(<<n, 1>>, LAMBDA ix : IF (ix[1] + q) % 2 = 0 THEN One ELSE 0)

\* def one_hot_encode(j), for a vector of k entries
one_hot_encode(j, k) == Arr(<<k, 1>>, LAMBDA ix : IF ix[1] = j + 1 THEN One ELSE 0)

\* training sample q for a network with these layers: (input, one-hot target)
TrainingSample(layers, q) ==
    [x |-> Column(layers[1], q), y |-> one_hot_encode(q % Last(layers), Last(layers))]

\* evaluation sample q: (input, class index)
TestSample(layers, q, o) ==
    [x |-> Column(layers[1], q), y |-> Scalar((q + o) % Last(layers))]

\* the well-formed training sets: 0..MaxSamples samples
TrainingSets(layers) ==
    {List(n, LAMBDA s : TrainingSample(layers, s)) : n \in 0..MaxSamples}

\* the ways a training sample can break the shape preconditions: an input
\* vector that is too long, a target vector that is too long, a target vector
\* of one entry, an evaluation-format class index as the target
Kinds == {"x_long", "y_long", "y_short", "label"}

SampleOfKind(layers, q, kind) ==
    LET good == TrainingSample(layers, q)
    IN  CASE kind = "x_long"  -> [good EXCEPT !.x = Column(layers[1] + 1, q)]
          [] kind = "y_long"  -> [good EXCEPT !.y = one_hot_encode(q % Last(layers), Last(layers) + 2)]
          [] kind = "y_short" -> [good EXCEPT !.y = Column(1, q)]
          [] kind = "label"   -> [good EXCEPT !.y = Scalar(q % Last(layers))]
          [] OTHER            -> good

\* training sets with malformed samples: every sample of one kind, or only
\* the last one
MalformedTrainingSets(layers) ==
    {List(n, LAMBDA s : SampleOfKind(layers, s, IF uniform \/ s = n THEN kind ELSE "ok")) :
       n \in 1..MaxSamples, kind \in Kinds, uniform \in BOOLEAN}

\* a sample that meets the shape preconditions of a network with these layers
WellFormedSample(layers, sample) ==
    /\ sample.x.shape = <<layers[1], 1>>
    /\ sample.y.shape = <<Last(layers), 1>>

WellFormedBatch(layers, batch) == \A s \in 1..Len(batch) : WellFormedSample(layers, batch[s])

\* learn's test_data argument: [given |-> FALSE] is None
NoTestData == [given |-> FALSE, data |-> <<>>]

TestSets(layers) ==
    {NoTestData, [given |-> TRUE, data |-> <<>>]}
    \cup {[given |-> TRUE, data |-> <<TestSample(layers, 1, o), TestSample(layers, 2, o)>>] :
            o \in {0, 1}}

----------------------------------------------------------------------------
\* State

VARIABLES
    layers,           \* the sizes init_network was called with
    nn,               \* the Network: num_layers, biases, weights
    training_data,    \* learn's arguments
    epochs,
    mini_batch_size,
    learning_rate,
    test_data,
    pc,               \* where the run is: "call", "epoch", "batch", "backprop",
                      \* "update_w", "update_b", "returned", "raised"
    n,                \* learn's locals
    j,
    mini_batches,
    k,                \* the position in mini_batches of the next mini-batch
    mini_batch,       \* batch_stochastic_gradient_descent's argument and locals
    nabla_b,
    nabla_w,
    output,           \* what print has written
    dataset,          \* history: the training set as it was passed to learn
    before,           \* history: the parameter store when the current call of
                      \* batch_stochastic_gradient_descent began
    written,          \* history: the gradient positions the last backward pass assigned
    updates,          \* history: the number of completed updates
    initial,          \* history: the parameter store init_network returned
    shuffled,         \* history: the training set after the shuffle of every epoch begun
    ff_a,             \* feedforward's argument and local a
    ff_l,             \* feedforward's position in zip(nn.biases, nn.weights)
    ff_input          \* history: the array feedforward was called with

vars == <<layers, nn, training_data, epochs, mini_batch_size, learning_rate, test_data,
          pc, n, j, mini_batches, k, mini_batch, nabla_b, nabla_w, output,
          dataset, before, written, updates, initial, shuffled, ff_a, ff_l, ff_input>>

\* a call of feedforward on its own: its argument, position, and local
forward == <<ff_a, ff_l, ff_input>>

\* learn's arguments, and what no step of learn but the shuffle touches
args == <<layers, training_data, epochs, mini_batch_size, learning_rate, test_data, dataset,
          initial, shuffled, forward>>

InitLocals ==
    /\ pc = "call"
    /\ n = 0
    /\ j = 0
    /\ mini_batches = <<>>
    /\ k = 0
    /\ mini_batch = <<>>
    /\ nabla_b = <<>>
    /\ nabla_w = <<>>
    /\ output = <<>>
    /\ dataset = training_data
    /\ before = nn
    /\ written = {}
    /\ updates = 0
    /\ initial = nn
    /\ shuffled = <<>>
    /\ ff_a = <<>>
    /\ ff_l = 0
    /\ ff_input = <<>>

\* nn = init_network(layers), then learn(nn, training_data, epochs,
\* mini_batch_size, learning_rate, test_data) is called on well-formed data
Init ==
    /\ layers \in LayerChoices
    /\ \E seed \in Seeds : nn = init_network(layers, seed)
    /\ training_data \in TrainingSets(layers)
    /\ epochs \in 0..MaxEpochs
    /\ mini_batch_size \in 0..(MaxSamples + 1)
    /\ learning_rate \in LearningRates
    /\ test_data \in TestSets(layers)
    /\ InitLocals

\* the same call on training data that may break the shape preconditions
InitAny ==
    /\ layers \in LayerChoices
    /\ \E seed \in Seeds : nn = init_network(layers, seed)
    /\ training_data \in TrainingSets(layers) \cup MalformedTrainingSets(layers)
    /\ epochs \in 0..MaxEpochs
    /\ mini_batch_size \in 0..(MaxSamples + 1)
    /\ learning_rate \in LearningRates
    /\ test_data = NoTestData
    /\ InitLocals

----------------------------------------------------------------------------
\* learn

\* a variant that rejects an empty training set
LearnEnterRejectsEmpty ==
    /\ pc = "call"
    /\ n' = Len(training_data)
    /\ j' = 0
    /\ pc' = IF Len(training_data) = 0 THEN "raised" ELSE "epoch"
    /\ UNCHANGED <<args, nn, mini_batches, k, mini_batch, nabla_b, nabla_w, output,
                   before, written, updates>>

\* n = len(training_data)
LearnEnter ==
    /\ pc = "call"
    /\ n' = Len(training_data)
    /\ j' = 0
    /\ pc' = "epoch"
    /\ UNCHANGED <<args, nn, mini_batches, k, mini_batch, nabla_b, nabla_w, output,
                   before, written, updates>>

\* a variant that keeps full mini-batches only: range(0, n - size + 1, size)
MiniBatchesFullOnly(data, len, size) ==
    LET starts == Range(0, len - size + 1, size)
    IN  List(Len(starts), LAMBDA b : Slice(data, starts[b], starts[b] + size))

\* the list of mini-batches: training_data[k: k + mini_batch_size] for k in
\* range(0, n, mini_batch_size)
MiniBatches(data, len, size) ==
    LET starts == Range(0, len, size)
    IN  List(Len(starts), LAMBDA b : Slice(data, starts[b], starts[b] + size))

\* a variant that also puts the mini-batches of the epoch in a random order
LearnEpochShufflesBatches ==
    /\ pc = "epoch"
    /\ j < epochs
    /\ training_data' \in Shuffles(training_data)
    /\ shuffled' = Append(shuffled, training_data')
    /\ IF mini_batch_size = 0
       THEN /\ pc' = "raised"
            /\ UNCHANGED <<mini_batches, k>>
       ELSE /\ mini_batches' \in Shuffles(MiniBatches(training_data', n, mini_batch_size))
            /\ k' = 1
            /\ pc' = "batch"
    /\ UNCHANGED <<layers, epochs, mini_batch_size, learning_rate, test_data, dataset, nn, n, j,
                   mini_batch, nabla_b, nabla_w, output, before, written, updates,
                   initial, forward>>

\* for j in range(epochs): random.shuffle(training_data); mini_batches = [...]
\* range(0, n, 0) raises ValueError
LearnEpoch ==
    /\ pc = "epoch"
    /\ j < epochs
    /\ training_data' \in Shuffles(training_data)
    /\ shuffled' = Append(shuffled, training_data')
    /\ IF mini_batch_size = 0
       THEN /\ pc' = "raised"
            /\ UNCHANGED <<mini_batches, k>>
       ELSE /\ mini_batches' = MiniBatches(training_data', n, mini_batch_size)
            /\ k' = 1
            /\ pc' = "batch"
    /\ UNCHANGED <<layers, epochs, mini_batch_size, learning_rate, test_data, dataset, nn, n, j,
                   mini_batch, nabla_b, nabla_w, output, before, written, updates,
                   initial, forward>>

\* the loop over the epochs is exhausted: learn returns
LearnReturn ==
    /\ pc = "epoch"
    /\ j >= epochs
    /\ pc' = "returned"
    /\ UNCHANGED <<args, nn, n, j, mini_batches, k, mini_batch, nabla_b, nabla_w, output,
                   before, written, updates>>

\* a variant that reports accuracy whenever test_data is not None
ReportLineWhenGiven(net, epoch, td) ==
    IF td.given
    THEN [kind |-> "accuracy", epoch |-> epoch + 1,
          num |-> 100 * evaluate(net, td.data).value, den |-> Len(td.data)]
    ELSE [kind |-> "complete", epoch |-> epoch + 1, num |-> 0, den |-> 1]

\* the line print writes after an epoch
\* if test_data: 'Epoch j+1: accuracy 100.0 * evaluate(nn, test_data) / len(test_data)%'
\* else: 'Epoch j+1 complete.'
\* the percentage is kept as the fraction num / den
ReportLine(net, epoch, td) ==
    IF td.given /\ Len(td.data) > 0
    THEN [kind |-> "accuracy", epoch |-> epoch + 1,
          num |-> 100 * evaluate(net, td.data).value, den |-> Len(td.data)]
    ELSE [kind |-> "complete", epoch |-> epoch + 1, num |-> 0, den |-> 1]

\* the mini-batches of the epoch are exhausted: report, next epoch
LearnReport ==
    /\ pc = "batch"
    /\ k > Len(mini_batches)
    /\ IF test_data.given /\ Len(test_data.data) > 0 /\ ~evaluate(nn, test_data.data).ok
       THEN /\ pc' = "raised"
            /\ UNCHANGED <<output, j>>
       ELSE /\ output' = Append(output, ReportLine(nn, j, test_data))
            /\ j' = j + 1
            /\ pc' = "epoch"
    /\ UNCHANGED <<args, nn, n, mini_batches, k, mini_batch, nabla_b, nabla_w,
                   before, written, updates>>

----------------------------------------------------------------------------
\* batch_stochastic_gradient_descent

\* for mini_batch in mini_batches: batch_stochastic_gradient_descent(nn, mini_batch, eta)
\* nabla_b, nabla_w = zeros
SgdEnter ==
    /\ pc = "batch"
    /\ k <= Len(mini_batches)
    /\ mini_batch' = mini_batches[k]
    /\ nabla_b' = List(Len(nn.biases), LAMBDA i : Zeros(nn.biases[i].shape))
    /\ nabla_w' = List(Len(nn.weights), LAMBDA i : Zeros(nn.weights[i].shape))
    /\ before' = nn
    /\ pc' = "backprop"
    /\ UNCHANGED <<args, nn, n, j, mini_batches, k, output, written, updates>>

\* a variant whose backward pass accumulates the bias gradients in the store's
\* own arrays, as nabla_b = nn.biases followed by in-place writes would
SgdBackpropAliased ==
    /\ pc = "backprop"
    /\ \E r \in {batch_backprop(nn, mini_batch)} :
           IF r.ok
           THEN /\ nabla_b' = r.nabla_b
                /\ nabla_w' = r.nabla_w
                /\ written' = r.written
                /\ nn' = [nn EXCEPT !.biases = r.nabla_b]
                /\ pc' = "update_w"
           ELSE /\ pc' = "raised"
                /\ UNCHANGED <<nabla_b, nabla_w, written, nn>>
    /\ UNCHANGED <<args, n, j, mini_batches, k, mini_batch, output, before, updates>>

\* a variant that computes every gradient from the store init_network
\* returned, as gradient computations started ahead of the updates would
SgdBackpropStale ==
    /\ pc = "backprop"
    /\ \E r \in {batch_backprop(initial, mini_batch)} :
           IF r.ok
           THEN /\ nabla_b' = r.nabla_b
                /\ nabla_w' = r.nabla_w
                /\ written' = r.written
                /\ pc' = "update_w"
           ELSE /\ pc' = "raised"
                /\ UNCHANGED <<nabla_b, nabla_w, written>>
    /\ UNCHANGED <<args, nn, n, j, mini_batches, k, mini_batch, output, before, updates>>

\* nabla_b, nabla_w = batch_backprop(nn, mini_batch)
SgdBackprop ==
    /\ pc = "backprop"
    /\ \E r \in {batch_backprop(nn, mini_batch)} :
           IF r.ok
           THEN /\ nabla_b' = r.nabla_b
                /\ nabla_w' = r.nabla_w
                /\ written' = r.written
                /\ pc' = "update_w"
           ELSE /\ pc' = "raised"
                /\ UNCHANGED <<nabla_b, nabla_w, written>>
    /\ UNCHANGED <<args, nn, n, j, mini_batches, k, mini_batch, output, before, updates>>

\* a variant that divides by the requested mini-batch size
DivisorRequested(batch, size) == size

\* the divisor of the update rule: len(mini_batch)
Divisor(batch, size) == Len(batch)

\* [p - (eta / len(mini_batch)) * np for p, np in zip(params, nabla)]
\* [ok, list]: ok is FALSE when the expression raises (ZeroDivisionError for
\* an empty mini-batch, ValueError when shapes do not broadcast)
Updated(params, nabla, eta, batch, size) ==
    LET m == Min(Len(params), Len(nabla))
        d == Divisor(batch, size)
    IN  IF d = 0 THEN [ok |-> FALSE, list |-> <<>>]
        ELSE Let1(List(m, LAMBDA i : Sub(params[i], Scale(FDivInt(eta, d), nabla[i]))),
                  LAMBDA list : [ok |-> \A i \in 1..m : list[i].ok, list |-> list])

\* nn.weights = [w - (eta / len(mini_batch)) * nw for w, nw in zip(nn.weights, nabla_w)]
SgdUpdateWeights ==
    /\ pc = "update_w"
    /\ \E r \in {Updated(nn.weights, nabla_w, learning_rate, mini_batch, mini_batch_size)} :
           IF r.ok
           THEN /\ nn' = [nn EXCEPT !.weights = r.list]
                /\ pc' = "update_b"
           ELSE /\ pc' = "raised"
                /\ UNCHANGED nn
    /\ UNCHANGED <<args, n, j, mini_batches, k, mini_batch, nabla_b, nabla_w, output,
                   before, written, updates>>

\* a variant that updates the biases in place, b -= (eta / len(mini_batch)) * nb,
\* which numpy rejects when the result's shape is not b's
SgdUpdateBiasesInPlace ==
    /\ pc = "update_b"
    /\ \E r \in {Updated(nn.biases, nabla_b, learning_rate, mini_batch, mini_batch_size)} :
           IF r.ok /\ \A i \in 1..Len(r.list) : r.list[i].shape = nn.biases[i].shape
           THEN /\ nn' = [nn EXCEPT !.biases = r.list]
                /\ k' = k + 1
                /\ updates' = updates + 1
                /\ pc' = "batch"
           ELSE /\ pc' = "raised"
                /\ UNCHANGED <<nn, k, updates>>
    /\ UNCHANGED <<args, n, j, mini_batches, mini_batch, nabla_b, nabla_w, output,
                   before, written>>

\* nn.biases = [b - (eta / len(mini_batch)) * nb for b, nb in zip(nn.biases, nabla_b)]
\* the call returns to learn's loop over the mini-batches
SgdUpdateBiases ==
    /\ pc = "update_b"
    /\ \E r \in {Updated(nn.biases, nabla_b, learning_rate, mini_batch, mini_batch_size)} :
           IF r.ok
           THEN /\ nn' = [nn EXCEPT !.biases = r.list]
                /\ k' = k + 1
                /\ updates' = updates + 1
                /\ pc' = "batch"
           ELSE /\ pc' = "raised"
                /\ UNCHANGED <<nn, k, updates>>
    /\ UNCHANGED <<args, n, j, mini_batches, mini_batch, nabla_b, nabla_w, output,
                   before, written>>

Next ==
    \/ LearnEnter
    \/ LearnEpoch
    \/ LearnReturn
    \/ LearnReport
    \/ SgdEnter
    \/ SgdBackprop
    \/ SgdUpdateWeights
    \/ SgdUpdateBiases

Spec == Init /\ [][Next]_vars

SpecAny == InitAny /\ [][Next]_vars

----------------------------------------------------------------------------
\* feedforward, called on its own

\* the inputs of a forward pass: a column vector of sizes[0] entries, or B
\* such vectors stacked along a leading batch axis, shape (B, sizes[0], 1)
ForwardInputs(sizes) ==
    {Column(sizes[1], q) : q \in {1, 2}}
    \cup {Stack(List(B, LAMBDA s : Column(sizes[1], s + q))) : B \in 1..MaxSamples, q \in {0, 1}}

\* nn = init_network(layers), then feedforward(nn, a) is called
InitForward ==
    /\ layers \in LayerChoices
    /\ \E seed \in Seeds : nn = init_network(layers, seed)
    /\ ff_a \in ForwardInputs(layers)
    /\ ff_input = ff_a
    /\ ff_l = 1
    /\ pc = "forward"
    /\ training_data = <<>>
    /\ epochs = 0
    /\ mini_batch_size = 1
    /\ learning_rate \in LearningRates
    /\ test_data = NoTestData
    /\ n = 0
    /\ j = 0
    /\ mini_batches = <<>>
    /\ k = 0
    /\ mini_batch = <<>>
    /\ nabla_b = <<>>
    /\ nabla_w = <<>>
    /\ output = <<>>
    /\ dataset = <<>>
    /\ before = nn
    /\ written = {}
    /\ updates = 0
    /\ initial = nn
    /\ shuffled = <<>>

learning == <<layers, nn, training_data, epochs, mini_batch_size, learning_rate, test_data,
              n, j, mini_batches, k, mini_batch, nabla_b, nabla_w, output,
              dataset, before, written, updates, initial, shuffled>>

\* for b, w in zip(nn.biases, nn.weights): a = sigmoid(np.dot(w, a) + b)
ForwardLayer ==
    /\ pc = "forward"
    /\ ff_l <= Min(Len(nn.biases), Len(nn.weights))
    /\ \E r \in {sigmoid(Add(Dot(nn.weights[ff_l], ff_a), nn.biases[ff_l]))} :
           IF r.ok
           THEN /\ ff_a' = r
                /\ ff_l' = ff_l + 1
                /\ pc' = "forward"
           ELSE /\ pc' = "raised"
                /\ UNCHANGED <<ff_a, ff_l>>
    /\ UNCHANGED <<learning, ff_input>>

\* return a
ForwardReturn ==
    /\ pc = "forward"
    /\ ff_l > Min(Len(nn.biases), Len(nn.weights))
    /\ pc' = "returned"
    /\ UNCHANGED <<learning, forward>>

NextForward ==
    \/ ForwardLayer
    \/ ForwardReturn

SpecForward == InitForward /\ [][NextForward]_vars

----------------------------------------------------------------------------
\* Properties

\* the run is inside a call of batch_stochastic_gradient_descent
InCall == pc \in {"backprop", "update_w", "update_b"}

\* mini_batches holds the mini-batches of the current epoch
InEpoch == pc \in {"batch", "backprop", "update_w", "update_b"}

\* the number of occurrences of every element of a list
BagOf(lst) ==
    [e \in {lst[i] : i \in 1..Len(lst)} |-> Cardinality({i \in 1..Len(lst) : lst[i] = e})]

RECURSIVE Concat(_)
\* the lists of a list, one after the other
Concat(lists) == IF lists = <<>> THEN <<>> ELSE Head(lists) \o Concat(Tail(lists))

\* ceil(a / b) for b > 0
CeilDiv(a, b) == (a + b - 1) \div b

\* the parameter store has the shapes the layer sizes prescribe
ShapesConsistent ==
    LET L == Len(layers)
    IN  /\ nn.num_layers = L
        /\ Len(nn.weights) = L - 1
        /\ Len(nn.biases) = L - 1
        /\ \A i \in 1..(L - 1) :
             /\ nn.weights[i].ok /\ nn.weights[i].shape = <<layers[i + 1], layers[i]>>
             /\ nn.biases[i].ok /\ nn.biases[i].shape = <<layers[i + 1], 1>>

\* the store that the update rule prescribes for a call that began with the
\* store old, on the mini-batch batch, at learning rate eta: every parameter
\* minus eta / len(batch) times its gradient from batch_backprop(old, batch)
RuleApplies(old, new, batch, eta) ==
    \E r \in {batch_backprop(old, batch)} :
      /\ r.ok
      /\ Len(batch) >= 1
      /\ new.num_layers = old.num_layers
      /\ Len(new.weights) = Len(old.weights)
      /\ Len(new.biases) = Len(old.biases)
      /\ Len(r.nabla_w) = Len(old.weights)
      /\ Len(r.nabla_b) = Len(old.biases)
      /\ \A i \in 1..Len(old.weights) :
           new.weights[i] = Sub(old.weights[i], Scale(FDivInt(eta, Len(batch)), r.nabla_w[i]))
      /\ \A i \in 1..Len(old.biases) :
           new.biases[i] = Sub(old.biases[i], Scale(FDivInt(eta, Len(batch)), r.nabla_b[i]))

\* C1: with mini-batch size m >= 1 and n training samples, the mini-batches
\* of an epoch are the contiguous slices [0,m), [m,2m), ... of the shuffled
\* training set: ceil(n/m) of them, all but the last of m samples, the last
\* of 1..m samples, their concatenation the shuffled training set, which is
\* a permutation of the training set passed in; one batch of n samples when
\* m >= n > 0.
C1_MiniBatchesPartition ==
    (InEpoch /\ mini_batch_size >= 1) =>
      LET m   == mini_batch_size
          len == Len(dataset)
          nb  == Len(mini_batches)
      IN  /\ nb = CeilDiv(len, m)
          /\ \A b \in 1..nb :
               mini_batches[b] = SubSeq(training_data, (b - 1) * m + 1, Min(b * m, len))
          /\ \A b \in 1..(nb - 1) : Len(mini_batches[b]) = m
          /\ nb > 0 => Len(mini_batches[nb]) \in 1..m
          /\ Concat(mini_batches) = training_data
          /\ BagOf(training_data) = BagOf(dataset)
          /\ (m >= len /\ len > 0) => (nb = 1 /\ Len(mini_batches[1]) = len)

\* an epoch of 3 samples in mini-batches of 2, the second a partial batch,
\* after a shuffle that changed the order
C1_Witness ==
    /\ pc = "batch"
    /\ Len(dataset) = 3
    /\ mini_batch_size = 2
    /\ Len(mini_batches) = 2
    /\ Len(mini_batches[2]) = 1
    /\ training_data # dataset

\* C2: when a call of batch_stochastic_gradient_descent on a mini-batch of
\* B >= 1 samples has returned, every weight is W - (eta/B) * gradW and every
\* bias b - (eta/B) * gradb, the gradients being those of one batch_backprop
\* call on the parameters from before the call, and B the number of samples
\* of that mini-batch.
C2_UpdateRule ==
    (pc = "batch" /\ k > 1) => RuleApplies(before, nn, mini_batch, learning_rate)

\* a completed update on a final partial mini-batch that changed weights and
\* biases, where dividing by the requested size gives another factor
C2_Witness ==
    /\ pc = "batch"
    /\ k > 1
    /\ Len(mini_batch) >= 1
    /\ Len(mini_batch) < mini_batch_size
    /\ FDivInt(learning_rate, Len(mini_batch)) # FDivInt(learning_rate, mini_batch_size)
    /\ nn.weights # before.weights
    /\ nn.biases # before.biases

\* C3: outside a call of batch_stochastic_gradient_descent, also after a
\* call that raised, the store holds the weights and biases from before the
\* call or the fully updated weights and biases.
C3_UpdateAtomic ==
    ~InCall => (nn = before \/ RuleApplies(before, nn, mini_batch, learning_rate))

\* a run in which one call updated the store and a later call raised on a
\* malformed mini-batch
C3_Witness ==
    /\ pc = "raised"
    /\ updates >= 1
    /\ mini_batch # <<>>
    /\ ~WellFormedBatch(layers, mini_batch)
    /\ nn = before

\* C4: after construction and after any number of updates on well-formed
\* mini-batches, the store holds L-1 weight matrices and L-1 bias vectors,
\* weight i of shape (sizes[i+1], sizes[i]), bias i of shape (sizes[i+1], 1),
\* and num_layers is L.
C4_ShapesConsistent == ShapesConsistent

\* a four-layer network after two updates that changed it
C4_Witness ==
    /\ Len(layers) = 4
    /\ updates >= 2
    /\ nn.weights # before.weights
    /\ pc = "returned"

CorrectSamples ==
    {s \in 1..Len(test_data.data) :
       \E out \in {feedforward(nn, test_data.data[s].x)} :
         \E c \in 0..(Last(layers) - 1) :
           /\ \A d \in 0..(Last(layers) - 1) : out.data[<<d + 1, 1>>] <= out.data[<<c + 1, 1>>]
           /\ \A d \in 0..(c - 1) : out.data[<<d + 1, 1>>] < out.data[<<c + 1, 1>>]
           /\ test_data.data[s].y = Scalar(c)}

\* C6: evaluate(nn, data) is the number of samples (x, y) of data for which
\* the lowest index holding the maximum entry of feedforward(nn, x) is the
\* class index y; it lies in 0..len(data), is len(data) when every sample is
\* classified correctly and 0 when every sample is classified wrongly.
C6_EvaluateCounts ==
    test_data.given =>
      \E r \in {evaluate(nn, test_data.data)} :
        /\ r.ok
        /\ r.value = Cardinality(CorrectSamples)
        /\ r.value \in 0..Len(test_data.data)
        /\ CorrectSamples = 1..Len(test_data.data) => r.value = Len(test_data.data)
        /\ CorrectSamples = {} => r.value = 0
        /\ \A i \in 1..Len(output) :
             output[i].kind = "accuracy" => output[i].num \in 0..(100 * Len(test_data.data))

\* an accuracy report was written and, on the updated store, one of the two
\* evaluation samples is classified correctly, its output holding the maximum
\* at both indices
C6_Witness ==
    /\ test_data.given
    /\ Len(test_data.data) = 2
    /\ Len(output) >= 1
    /\ updates >= 1
    /\ Cardinality(CorrectSamples) = 1
    /\ \E s \in CorrectSamples :
         \E out \in {feedforward(nn, test_data.data[s].x)} :
           /\ out.shape = <<2, 1>>
           /\ out.data[<<1, 1>>] = out.data[<<2, 1>>]

\* C7: a call of learn with mini-batch size 0 never returns normally, for
\* every training set and every epoch count: it raises before any update is
\* applied and before the update rule's division is evaluated.
C7_ZeroSizeFailsFast ==
    mini_batch_size = 0 =>
      /\ pc \notin {"returned", "update_w", "update_b"}
      /\ updates = 0
      /\ nn = before

\* from the first epoch on, a call with mini-batch size 0 has raised: no
\* mini-batch was built, no update applied, no report written
ZeroSizeRaisesInFirstEpoch ==
    (mini_batch_size = 0 /\ epochs >= 1) =>
      /\ pc \in {"call", "epoch", "raised"}
      /\ pc = "epoch" => j = 0
      /\ mini_batches = <<>>
      /\ updates = 0
      /\ output = <<>>
      /\ nn = before

\* C8: a mini-batch that violates the shape preconditions makes
\* batch_stochastic_gradient_descent raise and leaves the store unchanged: its
\* call never reaches the assignment of the biases, never returns, and the
\* store keeps the shapes the layer sizes prescribe.
C8_MalformedBatchRejected ==
    /\ ~WellFormedBatch(layers, mini_batch) =>
         /\ pc \in {"backprop", "update_w", "raised"}
         /\ nn = before
    /\ ShapesConsistent

\* the number of mini-batches of an epoch
BatchesPerEpoch ==
    IF mini_batch_size = 0 THEN 0 ELSE CeilDiv(Len(dataset), mini_batch_size)

\* the report on the store as it stands: accuracy 100 * correct / size for a
\* non-empty evaluation set, a completion notice otherwise
ExpectedReport(epoch) ==
    IF test_data.given /\ test_data.data # <<>>
    THEN [kind |-> "accuracy", epoch |-> epoch,
          num |-> 100 * Cardinality(CorrectSamples), den |-> Len(test_data.data)]
    ELSE [kind |-> "complete", epoch |-> epoch, num |-> 0, den |-> 1]

\* the reports written so far are those of the epochs completed so far
ReportsFollowEpochs ==
    /\ Len(output) = j
    /\ \A i \in 1..Len(output) : output[i].epoch = i
    /\ pc = "returned" => Len(output) = epochs
    /\ pc = "epoch" => updates = Len(output) * BatchesPerEpoch
    /\ updates >= Len(output) * BatchesPerEpoch
    /\ updates <= (Len(output) + 1) * BatchesPerEpoch

\* a step that writes appends one report, for the epoch whose updates were
\* all applied, computed on the store as it stands
ReportStep ==
    output' # output =>
      /\ output' = Append(output, ExpectedReport(Len(output) + 1))
      /\ updates = (Len(output) + 1) * BatchesPerEpoch
      /\ nn' = nn

StoreFrameStep ==
    /\ nn'.num_layers = nn.num_layers
    /\ (nn'.weights # nn.weights) => (pc = "update_w" /\ nn'.biases = nn.biases)
    /\ (nn'.biases # nn.biases) => (pc = "update_b" /\ nn'.weights = nn.weights)
    /\ (output' # output) => (nn' = nn)

\* C10: the store changes only in the two assignments of
\* batch_stochastic_gradient_descent, the weights in the first and the biases
\* in the second, and num_layers never; batch_backprop, evaluate and
\* feedforward leave it as it is, and it holds the values from before the
\* call while the gradients are computed.
C10_StoreFrame == [](pc = "backprop" => nn = before) /\ [][StoreFrameStep]_vars

\* the gradients of a mini-batch are computed, non-zero, after an earlier
\* update and an accuracy report, and the store is the one from before the call
C10_Witness ==
    /\ pc = "update_w"
    /\ updates >= 1
    /\ Len(output) >= 1
    /\ output[1].kind = "accuracy"
    /\ nabla_b # List(Len(nn.biases), LAMBDA i : Zeros(nn.biases[i].shape))
    /\ nn = before

\* the store the update rule gives from store on the mini-batch batch
StoreAfter(store, batch, eta) ==
    Let1(batch_backprop(store, batch), LAMBDA r :
      [num_layers |-> store.num_layers,
       biases  |-> List(Len(store.biases), LAMBDA i :
                     Sub(store.biases[i], Scale(FDivInt(eta, Len(batch)), r.nabla_b[i]))),
       weights |-> List(Len(store.weights), LAMBDA i :
                     Sub(store.weights[i], Scale(FDivInt(eta, Len(batch)), r.nabla_w[i])))])

\* the mini-batches of all epochs begun, in the order learn processes them:
\* the slices of size of each epoch's shuffled training set, epoch by epoch
BatchesInOrder(orders, size) ==
    Concat(List(Len(orders), LAMBDA e :
             List(CeilDiv(Len(orders[e]), size), LAMBDA b :
               SubSeq(orders[e], (b - 1) * size + 1, Min(b * size, Len(orders[e]))))))

RECURSIVE StoreAfterAll(_, _, _, _)
\* the store after the first count mini-batches of batches, starting from store
StoreAfterAll(store, batches, eta, count) ==
    IF count = 0 THEN store
    ELSE Let1(StoreAfterAll(store, batches, eta, count - 1), LAMBDA s :
           StoreAfter(s, batches[count], eta))

\* C11: the store after every mini-batch is a function of the layer sizes,
\* the initial parameter values, the hyperparameters and the order the
\* shuffle gave the training set in every epoch: it is the store obtained by
\* applying the update rule to the slices of the shuffled training sets, in
\* order, starting from the initial store.  Nothing else a run chooses
\* affects it.
C11_StoreDetermined ==
    (pc \in {"epoch", "batch", "returned"} /\ mini_batch_size >= 1) =>
      /\ Len(nn.weights) = Len(layers) - 1
      /\ nn = StoreAfterAll(initial, BatchesInOrder(shuffled, mini_batch_size),
                            learning_rate, updates)

\* a completed run of two epochs whose shuffles gave different orders, with
\* two mini-batches in every epoch
C11_Witness ==
    /\ pc = "returned"
    /\ epochs = 2
    /\ updates = 4
    /\ Len(shuffled) = 2
    /\ shuffled[1] # shuffled[2]
    /\ nn # initial

RECURSIVE SampleActivation(_, _, _)
\* per-sample backprop, forward: a_0 = x, z_i = W_i . a_(i-1) + b_i,
\* a_i = sigmoid(z_i)
SampleZ(store, x, i) ==
    Add(MatMul(store.weights[i], SampleActivation(store, x, i - 1)), store.biases[i])

SampleActivation(store, x, i) ==
    IF i = 0 THEN x ELSE sigmoid(SampleZ(store, x, i))

RECURSIVE SampleDelta(_, _, _, _)
\* per-sample backprop, backward: delta_L = (a_L - y) * sigmoid_prime(z_L),
\* delta_i = (W_(i+1)^T . delta_(i+1)) * sigmoid_prime(z_i)
SampleDelta(store, x, y, i) ==
    IF i = Len(store.weights)
    THEN Mul(Sub(SampleActivation(store, x, i), y), sigmoid_prime(SampleZ(store, x, i)))
    ELSE Mul(MatMul(Transpose(store.weights[i + 1]), SampleDelta(store, x, y, i + 1)),
             sigmoid_prime(SampleZ(store, x, i)))

\* grad_b_i = delta_i
SampleGradB(store, sample, i) == SampleDelta(store, sample.x, sample.y, i)

\* grad_W_i = delta_i . a_(i-1)^T
SampleGradW(store, sample, i) ==
    MatMul(SampleDelta(store, sample.x, sample.y, i),
           Transpose(SampleActivation(store, sample.x, i - 1)))

RECURSIVE SumArrays(_)
\* the element-wise sum of a non-empty list of arrays
SumArrays(arrays) ==
    IF Len(arrays) = 1 THEN arrays[1]
    ELSE Add(SumArrays(Front(arrays)), arrays[Len(arrays)])

\* C12: the gradients batch_backprop returns for a mini-batch of B >= 1
\* samples are, position by position, the element-wise sums over the samples
\* of the per-sample backprop gradients, and of the gradients batch_backprop
\* returns for every sample alone.
C12_BatchIsSumOfSamples ==
    pc = "update_w" =>
      LET B == Len(mini_batch)
      IN  /\ B >= 1
          /\ \A s \in 1..B : batch_backprop(nn, <<mini_batch[s]>>).ok
          /\ \A i \in 1..(Len(layers) - 1) :
               /\ nabla_b[i] = SumArrays(List(B, LAMBDA s : SampleGradB(nn, mini_batch[s], i)))
               /\ nabla_w[i] = SumArrays(List(B, LAMBDA s : SampleGradW(nn, mini_batch[s], i)))
               /\ nabla_b[i] = SumArrays(List(B, LAMBDA s :
                                  batch_backprop(nn, <<mini_batch[s]>>).nabla_b[i]))
               /\ nabla_w[i] = SumArrays(List(B, LAMBDA s :
                                  batch_backprop(nn, <<mini_batch[s]>>).nabla_w[i]))

\* the gradients of a mini-batch of two samples with different targets on a
\* network with a hidden layer, different from each sample's own gradients
C12_Witness ==
    /\ pc = "update_w"
    /\ Len(mini_batch) = 2
    /\ Len(layers) >= 3
    /\ mini_batch[1].y # mini_batch[2].y
    /\ \A s \in 1..2 : nabla_w[Len(nabla_w)] # SampleGradW(nn, mini_batch[s], Len(nabla_w))
    /\ \A s \in 1..2 : nabla_b[1] # SampleGradB(nn, mini_batch[s], 1)

\* the shape the forward pass is to return for an input: (sizes[-1], 1) for a
\* column vector, (B, sizes[-1], 1) for B stacked column vectors
ForwardShape(in) ==
    IF Len(in.shape) = 2 THEN <<Last(layers), 1>> ELSE <<in.shape[1], Last(layers), 1>>

\* sample s of a stacked batch
SampleOf(batch, s) == Arr(Tail(batch.shape), LAMBDA ix : batch.data[<<s>> \o ix])

\* the steps of a call of feedforward compute what the function is defined to
ForwardStepsAgree ==
    ff_input # <<>> =>
      /\ pc = "returned" => ff_a = feedforward(nn, ff_input)
      /\ pc = "raised" => ~feedforward(nn, ff_input).ok

\* for a single column vector of sizes[0] entries feedforward returns the
\* (sizes[-1], 1) activation of the last layer, a = sigmoid(W.a + b) applied
\* once per layer transition in order
ForwardSingleVector ==
    (ff_input # <<>> /\ Len(ff_input.shape) = 2) =>
      /\ pc # "raised"
      /\ pc = "returned" =>
           /\ ff_a.ok
           /\ ff_a.shape = <<Last(layers), 1>>
           /\ ff_a = SampleActivation(nn, ff_input, Len(layers) - 1)

\* C13: for an input the forward pass accepts, a column vector or a stacked
\* batch, feedforward does not raise and returns the final activation of
\* every sample: shape (sizes[-1], 1), or (B, sizes[-1], 1) with slice s the
\* activation of sample s, from a = sigmoid(W.a + b) per layer transition.
C13_ForwardShape ==
    ff_input # <<>> =>
      /\ pc # "raised"
      /\ pc = "returned" =>
           /\ ff_a.ok
           /\ ff_a.shape = ForwardShape(ff_input)
           /\ Len(ff_input.shape) = 2 =>
                ff_a = SampleActivation(nn, ff_input, Len(layers) - 1)
           /\ Len(ff_input.shape) = 3 =>
                \A s \in 1..ff_input.shape[1] :
                  SampleOf(ff_a, s) = SampleActivation(nn, SampleOf(ff_input, s), Len(layers) - 1)

\* where a run stands among its mini-batches: j epochs done, k - 1 mini-batches
\* of the current epoch done, the gradients in hand those of the current
\* mini-batch on the current store
SequentialState ==
    /\ (InEpoch /\ mini_batch_size >= 1) =>
         /\ k \in 1..(Len(mini_batches) + 1)
         /\ updates = j * BatchesPerEpoch + (k - 1)
    /\ InCall => (k <= Len(mini_batches) /\ mini_batch = mini_batches[k])
    /\ pc = "backprop" => nn = before
    /\ pc = "update_w" =>
         /\ nn = before
         /\ \E r \in {batch_backprop(nn, mini_batch)} :
              r.ok /\ nabla_b = r.nabla_b /\ nabla_w = r.nabla_w
    /\ (pc = "returned" /\ mini_batch_size >= 1) =>
         updates = epochs * CeilDiv(Len(dataset), mini_batch_size)

\* the steps on a mini-batch come in one order: the call begins on the store
\* the last update left, one gradient computation, the weights, the biases
SequentialStep ==
    /\ (pc = "batch" /\ pc' = "backprop") =>
         (before' = nn /\ nn' = nn /\ mini_batch' = mini_batches[k] /\ k' = k)
    /\ pc = "backprop" => (pc' \in {"update_w", "raised"} /\ nn' = nn /\ k' = k)
    /\ pc = "update_w" => (pc' \in {"update_b", "raised"} /\ k' = k)
    /\ pc = "update_b" => pc' \in {"batch", "raised"}
    /\ pc' = "backprop" => pc = "batch"
    /\ pc' = "update_w" => pc = "backprop"
    /\ pc' = "update_b" => pc = "update_w"
    /\ updates' # updates => (pc = "update_b" /\ updates' = updates + 1 /\ k' = k + 1)
    /\ (k' # k /\ pc = "update_b") => updates' = updates + 1

\* C14: the mini-batches of a run are processed one after the other: the
\* gradients of each are computed once, from the store the update of the
\* mini-batch before it produced, and followed by one update; a run with
\* size m >= 1, n samples and E epochs that returns has applied
\* E * ceil(n/m) updates.
C14_Sequential == []SequentialState /\ [][SequentialStep]_vars

\* a run of two epochs over three samples in mini-batches of two has returned
\* after four updates, the last on a partial mini-batch
C14_Witness ==
    /\ pc = "returned"
    /\ epochs = 2
    /\ Len(dataset) = 3
    /\ mini_batch_size = 2
    /\ updates = 4
    /\ Len(mini_batch) = 1
    /\ nn # before

\* C15: with epochs = 0, for every mini-batch size, learn returns without
\* an error, a shuffle, an update or a report; with an empty training set and
\* mini-batch size >= 1 every epoch has no mini-batch and no update and
\* writes its report, and learn returns without an error; the store is the
\* one init_network returned throughout.
C15_DegenerateRuns ==
    /\ epochs = 0 =>
         /\ pc \in {"call", "epoch", "returned"}
         /\ shuffled = <<>>
         /\ training_data = dataset
         /\ updates = 0
         /\ output = <<>>
         /\ nn = initial
    /\ (dataset = <<>> /\ mini_batch_size >= 1) =>
         /\ pc \in {"call", "epoch", "batch", "returned"}
         /\ pc = "batch" => mini_batches = <<>>
         /\ updates = 0
         /\ nn = initial
         /\ Len(output) = j
         /\ Len(shuffled) \in {j, j + 1}
         /\ \A i \in 1..Len(output) : output[i] = ExpectedReport(i)
         /\ pc = "returned" => Len(output) = epochs

\* a run of two epochs on an empty training set has returned with its two
\* accuracy reports
C15_Witness ==
    /\ pc = "returned"
    /\ dataset = <<>>
    /\ epochs = 2
    /\ mini_batch_size >= 1
    /\ Len(shuffled) = 2
    /\ Len(output) = 2
    /\ output[2].kind = "accuracy"
    /\ nn = initial

====
